---- MODULE Spec2Model ----
(***************************************************************************)
(* The Event Correlation Engine of src/pkg/ece/ece.go: the store           *)
(* ece.Events guarded by the engine's RWMutex, the per-entry mutex, the    *)
(* ingestion goroutine of Start, the eviction goroutines DelayNotify and   *)
(* the output sink ece.logger.                                             *)
(***************************************************************************)
EXTENDS Integers, Sequences, FiniteSets, TLC

\* Bound on the number of calls made to the engine's exported methods
\* (messages handed to the ingestion channel, direct AddEvent calls and,
\* under ApiSpec, direct WriteEvent calls).
MaxCalls == 2

\* ece.Ttl, in clock ticks.
Ttl == 1

\* The request ids of the messages; "" is the request_id of a record that
\* has none.
Keys == {"", "k1", "k2"}

\* The goroutines that call AddEvent: the ingestion goroutine of Start and a
\* second goroutine that calls the exported method directly.
Callers == {"loop", "api"}

\* *Event pointers: 0 is nil, i > 0 is the i-th Event allocated.
Nil == 0
EventIds == 1..MaxCalls
TaskIds == 1..MaxCalls

VARIABLES
    Events,     \* ece.Events: key -> *Event (Nil: no such key)
    heap,       \* the Event objects: mutex, WafEntries, RequestEntries
    rw,         \* the engine's embedded sync.RWMutex
    channel,    \* the syslog.LogPartsChannel of Start: messages in flight
    caller,     \* the goroutines inside AddEvent
    task,       \* the goroutines inside DelayNotify / WriteEvent
    logger,     \* the lines written to ece.logger, in order
    ncalls,     \* calls made so far (bounded by MaxCalls)
    running,    \* the syslog server accepts messages (until Shutdown)
    panicked    \* a goroutine dereferenced a nil *Event: the process is dead

vars == <<Events, heap, rw, channel, caller, task, logger, ncalls, running, panicked>>

----------------------------------------------------------------------------
\* Messages.  A message is the JSON text of one log line; it is represented
\* by what json.Unmarshal makes of it: whether it decodes at all (json) and
\* the fields the engine reads.  Rule ids are strings, kept as sequences of
\* characters so that strconv.Atoi is computed, not assumed.

Msg(j, t, k, rid, sid, thr) ==
    [json |-> j, EventType |-> t, RequestId |-> k, RuleId |-> rid,
     ServiceId |-> sid, ThrottlingRule |-> thr, LogData |-> <<>>, Severity |-> ""]

WafMsg(k, rid) == Msg(TRUE, "waf", k, rid, "", "")
ReqMsg(k, sid, thr) == Msg(TRUE, "req", k, <<>>, sid, thr)
\* A RuleViolation with logdata ld, a sequence of characters.
WafLogMsg(k, rid, ld) == [WafMsg(k, rid) EXCEPT !.LogData = ld]
\* A RuleViolation with severity sev; severity stands for anomaly_score and
\* waf_message too, which the engine treats in the same way.
WafSevMsg(k, rid, sev) == [WafMsg(k, rid) EXCEPT !.Severity = sev]
Garbage == Msg(FALSE, "", "", <<>>, "", "")

\* A text json.Unmarshal reports an error on (a field of the wrong JSON type)
\* although it has set event_type to "waf".
Malformed == Msg(FALSE, "waf", "k1", <<"0">>, "", "")

Messages ==
    { WafMsg("k1", <<"0">>), WafSevMsg("k1", <<"0", "0">>, "s"), WafMsg("k1", <<"x">>),
      ReqMsg("k1", "s1", ""), ReqMsg("k1", "s2", "t"),
      WafMsg("k2", <<"0">>),
      Garbage, Malformed }

\* The messages of IngestSpec: RuleViolations whose logdata is empty, valid
\* base64 ("YQ=="), not base64 from its first character ("!") and not base64
\* after a whole quantum ("YWJj!"), and records without a request_id.
IngestMessages ==
    { WafMsg("k1", <<"0">>),
      WafLogMsg("k1", <<"0">>, <<"Y", "Q", "=", "=">>),
      WafLogMsg("k1", <<"0">>, <<"!">>),
      WafLogMsg("k1", <<"0">>, <<"Y", "W", "J", "j", "!">>),
      WafMsg("", <<"0">>),
      ReqMsg("", "s1", "") }

\* WafEntry{} and RequestEntry{}: the zero values.
NoWaf == [EventType |-> "", RequestId |-> "", RuleId |-> <<>>, LogData |-> <<>>,
          Severity |-> ""]
NoWeb == [EventType |-> "", RequestId |-> "", ServiceId |-> "", ThrottlingRule |-> ""]

\* UnmarshalWaf without the test of event_type: whatever decodes is a
\* WafEntry.
MutUnmarshalWafAnyTag(m) ==
    [err |-> ~m.json,
     waf |-> [EventType |-> m.EventType, RequestId |-> m.RequestId, RuleId |-> m.RuleId,
              LogData |-> m.LogData, Severity |-> m.Severity]]

\* UnmarshalWaf: the decoded WafEntry, or an error when the text does not
\* decode or its event_type is not "waf".
UnmarshalWaf(m) ==
    IF m.EventType # "waf"
    THEN [err |-> TRUE, waf |-> NoWaf]
    ELSE [err |-> ~m.json,
          waf |-> [EventType |-> m.EventType, RequestId |-> m.RequestId,
                   RuleId |-> m.RuleId, LogData |-> m.LogData, Severity |-> m.Severity]]

\* UnmarshalWeb: the decoded RequestEntry, or an error.
UnmarshalWeb(m) ==
    IF m.EventType # "req"
    THEN [err |-> TRUE, web |-> NoWeb]
    ELSE [err |-> ~m.json,
          web |-> [EventType |-> m.EventType, RequestId |-> m.RequestId,
                   ServiceId |-> m.ServiceId, ThrottlingRule |-> m.ThrottlingRule]]

----------------------------------------------------------------------------
\* strconv.Atoi on a string given as a sequence of characters.

DigitChars == {"0", "1", "2", "3", "4", "5", "6", "7", "8", "9"}

DigitVal(ch) ==
    CASE ch = "0" -> 0 [] ch = "1" -> 1 [] ch = "2" -> 2 [] ch = "3" -> 3
      [] ch = "4" -> 4 [] ch = "5" -> 5 [] ch = "6" -> 6 [] ch = "7" -> 7
      [] ch = "8" -> 8 [] ch = "9" -> 9

RECURSIVE ParseDigits(_, _)
ParseDigits(s, acc) ==
    IF s = <<>> THEN acc
    ELSE ParseDigits(Tail(s), acc * 10 + DigitVal(Head(s)))

Unsigned(s) == IF s # <<>> /\ Head(s) \in {"+", "-"} THEN Tail(s) ELSE s

AtoiOk(s) ==
    /\ Unsigned(s) # <<>>
    /\ \A i \in 1..Len(Unsigned(s)) : Unsigned(s)[i] \in DigitChars

Atoi(s) ==
    IF s # <<>> /\ Head(s) = "-"
    THEN 0 - ParseDigits(Unsigned(s), 0)
    ELSE ParseDigits(Unsigned(s), 0)

----------------------------------------------------------------------------
\* base64.StdEncoding.DecodeString on a string given as a sequence of
\* characters; the result is a sequence of bytes (0..255) and whether an
\* error is returned with it.

B64Chars ==
    << "A", "B", "C", "D", "E", "F", "G", "H", "I", "J", "K", "L", "M",
       "N", "O", "P", "Q", "R", "S", "T", "U", "V", "W", "X", "Y", "Z",
       "a", "b", "c", "d", "e", "f", "g", "h", "i", "j", "k", "l", "m",
       "n", "o", "p", "q", "r", "s", "t", "u", "v", "w", "x", "y", "z",
       "0", "1", "2", "3", "4", "5", "6", "7", "8", "9", "+", "/" >>

\* enc.decodeMap: the 6-bit value of a character, 255 for any other.
DecodeMap(ch) ==
    IF \E i \in DOMAIN B64Chars : B64Chars[i] = ch
    THEN (CHOOSE i \in DOMAIN B64Chars : B64Chars[i] = ch) - 1
    ELSE 255

NewLines == {"\n", "\r"}

\* The index of the first character at or after si that is no newline.
RECURSIVE SkipNewLines(_, _)
SkipNewLines(src, si) ==
    IF si <= Len(src) /\ src[si] \in NewLines THEN SkipNewLines(src, si + 1) ELSE si

\* The bytes of a quantum of dlen 6-bit values dbuf: dlen - 1 bytes.
QuantumBytes(dbuf, dlen) ==
    LET d(i) == IF i <= Len(dbuf) THEN dbuf[i] ELSE 0
        val == d(1) * 262144 + d(2) * 4096 + d(3) * 64 + d(4)
        b == << (val \div 65536) % 256, (val \div 256) % 256, val % 256 >>
    IN  SubSeq(b, 1, dlen - 1)

\* enc.decodeQuantum: reads the quantum that starts at src[si]; j values are
\* in dbuf.  Returns the next index, the bytes decoded and the error.
RECURSIVE DecodeQuantum(_, _, _)
DecodeQuantum(src, si, dbuf) ==
    LET j == Len(dbuf)
    IN  IF j = 4 THEN [si |-> si, bytes |-> QuantumBytes(dbuf, 4), err |-> FALSE]
        ELSE IF si > Len(src)
        THEN [si |-> si, bytes |-> <<>>, err |-> j # 0]
        ELSE IF DecodeMap(src[si]) # 255
        THEN DecodeQuantum(src, si + 1, Append(dbuf, DecodeMap(src[si])))
        ELSE IF src[si] \in NewLines
        THEN DecodeQuantum(src, si + 1, dbuf)
        ELSE IF src[si] # "=" \/ j < 2
        THEN [si |-> si + 1, bytes |-> <<>>, err |-> TRUE]
        ELSE LET p == IF j = 2 THEN SkipNewLines(src, si + 1) ELSE si
             IN  IF j = 2 /\ (p > Len(src) \/ src[p] # "=")
                 THEN [si |-> p, bytes |-> <<>>, err |-> TRUE]
                 ELSE LET e == SkipNewLines(src, p + 1)
                      IN  [si |-> e, bytes |-> QuantumBytes(dbuf, j),
                           err |-> e <= Len(src)]

\* enc.Decode: quantum after quantum; at the first error, the bytes decoded
\* so far are returned with it.
RECURSIVE DecodeFrom(_, _, _)
DecodeFrom(src, si, acc) ==
    IF si > Len(src) THEN [bytes |-> acc, err |-> FALSE]
    ELSE LET q == DecodeQuantum(src, si, <<>>)
         IN  IF q.err THEN [bytes |-> acc \o q.bytes, err |-> TRUE]
             ELSE DecodeFrom(src, q.si, acc \o q.bytes)

DecodeString(src) == DecodeFrom(src, 1, <<>>)

----------------------------------------------------------------------------
\* Lock holders: a caller goroutine or a task goroutine.

NoOne == [c |-> "none", t |-> 0]
ByCaller(c) == [c |-> c, t |-> 0]
ByTask(f) == [c |-> "none", t |-> f]

\* NewEvent handing out an entry that still holds the WafEntries of the
\* key's previous entry.
MutNewEventStale(k) ==
    [mutex |-> NoOne,
     WafEntries |-> IF \E e \in DOMAIN heap : heap[e].alloc /\ heap[e].reqId = k
                    THEN heap[CHOOSE e \in DOMAIN heap :
                                 heap[e].alloc /\ heap[e].reqId = k].WafEntries
                    ELSE <<>>,
     RequestEntries |-> <<>>,
     alloc |-> TRUE, reqId |-> k, age |-> 0, hist |-> <<>>, acq |-> <<>>]

\* &Event{}: a fresh entry.  alloc, reqId, age and hist are history: the
\* cell is in use, the key the entry was inserted under, the ticks elapsed
\* since, the records appended to the entry, of both kinds, in the order
\* of their appends, and the records of the goroutines that took the entry's
\* mutex in AddEvent, in the order in which they took it.
NewEvent(k) ==
    [mutex |-> NoOne, WafEntries |-> <<>>, RequestEntries |-> <<>>,
     alloc |-> TRUE, reqId |-> k, age |-> 0, hist |-> <<>>, acq |-> <<>>]

\* A heap cell no Event has been allocated in yet.
NoEvent == [mutex |-> NoOne, WafEntries |-> <<>>, RequestEntries |-> <<>>,
            alloc |-> FALSE, reqId |-> "", age |-> 0, hist |-> <<>>, acq |-> <<>>]

Allocated == {e \in EventIds : heap[e].alloc}
Spawned == {f \in TaskIds : task[f].pc # "off"}

\* A goroutine outside AddEvent.  raced is history: the entry another
\* goroutine inserted under the key of this call between this call's first
\* look, which did not find the key, and its return from RetrieveEvent.
IdleCaller == [pc |-> "idle", kind |-> "", waf |-> NoWaf, web |-> NoWeb, reqId |-> "", event |-> Nil,
               ret |-> "none", raced |-> Nil]

\* A goroutine slot: pc "off" until the goroutine is started.  spawnedFor is
\* history: the entry whose insertion started the goroutine.
OffTask == [pc |-> "off", reqId |-> "", event |-> Nil, timer |-> 0, err |-> "none",
            spawnedFor |-> Nil]

Init ==
    /\ Events = [k \in Keys |-> Nil]
    /\ heap = [e \in EventIds |-> NoEvent]
    /\ rw = [w |-> NoOne, r |-> {}]
    /\ channel = <<>>
    /\ caller = [c \in Callers |-> IdleCaller]
    /\ task = [f \in TaskIds |-> OffTask]
    /\ logger = <<>>
    /\ ncalls = 0
    /\ running = TRUE
    /\ panicked = FALSE

----------------------------------------------------------------------------
\* WriteEvent's merge (ece.go 197-283).

\* The keys of the map ruleIds: the distinct rule id strings of the entry.
RuleIdKeys(ev) == {ev.WafEntries[i].RuleId : i \in 1..Len(ev.WafEntries)}

\* strconv.Atoi fails on one of the keys: WriteEvent returns the error.
ConversionError(ev) == \E id \in RuleIdKeys(ev) : ~AtoiOk(id)

\* OutputBase taking the summary fields from the last RequestEntry.
MutOutputBaseLast(ev, reqId) ==
    IF Len(ev.RequestEntries) > 0
    THEN [RequestId |-> ev.RequestEntries[Len(ev.RequestEntries)].RequestId,
          ServiceId |-> ev.RequestEntries[Len(ev.RequestEntries)].ServiceId,
          ThrottlingRule |-> ev.RequestEntries[Len(ev.RequestEntries)].ThrottlingRule]
    ELSE [RequestId |-> reqId, ServiceId |-> "", ThrottlingRule |-> ""]

\* OutputBase leaving the OutputEvent empty when there is no RequestEntry.
MutOutputBaseNoKey(ev, reqId) ==
    IF Len(ev.RequestEntries) > 0
    THEN [RequestId |-> ev.RequestEntries[1].RequestId,
          ServiceId |-> ev.RequestEntries[1].ServiceId,
          ThrottlingRule |-> ev.RequestEntries[1].ThrottlingRule]
    ELSE [RequestId |-> "", ServiceId |-> "", ThrottlingRule |-> ""]

\* The summary fields: those of the first RequestEntry, or the key alone.
\* ServiceId stands for every field WriteEvent copies from RequestEntries[0]
\* without looking at it.
OutputBase(ev, reqId) ==
    IF Len(ev.RequestEntries) > 0
    THEN [RequestId |-> ev.RequestEntries[1].RequestId,
          ServiceId |-> ev.RequestEntries[1].ServiceId,
          ThrottlingRule |-> ev.RequestEntries[1].ThrottlingRule]
    ELSE [RequestId |-> reqId, ServiceId |-> "", ThrottlingRule |-> ""]

\* The OutputWaf of a WafEntry: logdata is decoded when it is not empty and
\* the error of the decoder is dropped; rule_id and severity (and with it
\* anomaly_score and waf_message) are copied as they are.
OutputWaf(w) ==
    [RuleId |-> w.RuleId, Severity |-> w.Severity,
     LogData |-> IF w.LogData # <<>> THEN DecodeString(w.LogData).bytes ELSE <<>>]

\* IdLists with ids made one element longer than the map: a 0 is left in
\* front of the rule ids.
MutIdListsOneTooLong(ev) ==
    LET keys == RuleIdKeys(ev)
        n == Cardinality(keys)
        orders == {p \in [1..n -> keys] : \A i, j \in 1..n : p[i] = p[j] => i = j}
    IN  {<<0>> \o [i \in 1..n |-> Atoi(p[i])] : p \in orders}

\* The lists ids can be: Go iterates the map ruleIds in an unspecified order.
IdLists(ev) ==
    LET keys == RuleIdKeys(ev)
        n == Cardinality(keys)
        orders == {p \in [1..n -> keys] : \A i, j \in 1..n : p[i] = p[j] => i = j}
    IN  {[i \in 1..n |-> Atoi(p[i])] : p \in orders}

\* OutputEvent with one waf event per distinct rule id: the first entry that
\* carries it.
MutOutputEventUniqueWaf(ev, reqId, ids) ==
    LET base == OutputBase(ev, reqId)
        firsts == {i \in 1..Len(ev.WafEntries) :
                      \A j \in 1..(i - 1) : ev.WafEntries[j].RuleId # ev.WafEntries[i].RuleId}
        nth(k) == CHOOSE i \in firsts : Cardinality({j \in firsts : j <= i}) = k
    IN  [RequestId |-> base.RequestId,
         ServiceId |-> base.ServiceId,
         ThrottlingRule |-> base.ThrottlingRule,
         RuleIds |-> ids,
         WafEvents |-> [k \in 1..Cardinality(firsts) |-> OutputWaf(ev.WafEntries[nth(k)])],
         Throttled |-> IF base.ThrottlingRule # "" THEN 1 ELSE 0]

\* OutputEvent with throttled set when any RequestEntry has a throttling rule.
MutOutputEventThrottledAny(ev, reqId, ids) ==
    LET base == OutputBase(ev, reqId)
    IN  [RequestId |-> base.RequestId,
         ServiceId |-> base.ServiceId,
         ThrottlingRule |-> base.ThrottlingRule,
         RuleIds |-> ids,
         WafEvents |-> [i \in 1..Len(ev.WafEntries) |-> OutputWaf(ev.WafEntries[i])],
         Throttled |-> IF \E j \in 1..Len(ev.RequestEntries) :
                              ev.RequestEntries[j].ThrottlingRule # ""
                       THEN 1 ELSE 0]

OutputEvent(ev, reqId, ids) ==
    LET base == OutputBase(ev, reqId)
    IN  [RequestId |-> base.RequestId,
         ServiceId |-> base.ServiceId,
         ThrottlingRule |-> base.ThrottlingRule,
         RuleIds |-> ids,
         WafEvents |-> [i \in 1..Len(ev.WafEntries) |-> OutputWaf(ev.WafEntries[i])],
         Throttled |-> IF base.ThrottlingRule # "" THEN 1 ELSE 0]

----------------------------------------------------------------------------
\* AddEvent (ece.go 308-350), by the goroutine c.

\* BeginAddEvent looking at the WafEntry and not at the error UnmarshalWaf
\* returned with it.
MutBeginAddEventIgnoresErr(m) ==
    LET w == UnmarshalWaf(m)
        r == UnmarshalWeb(m)
    IN  IF w.waf.EventType = "waf"
        THEN [IdleCaller EXCEPT !.pc = "RLock", !.kind = "waf", !.waf = w.waf,
                                !.reqId = w.waf.RequestId]
        ELSE IF ~r.err
        THEN [IdleCaller EXCEPT !.pc = "RLock", !.kind = "req", !.web = r.web,
                                !.reqId = r.web.RequestId]
        ELSE [IdleCaller EXCEPT !.ret = "error"]

\* BeginAddEvent where addWebEvent looks the entry up under the request id
\* of the WafEntry that did not decode, not under that of the RequestEntry.
MutBeginAddEventKeyOfWaf(m) ==
    LET w == UnmarshalWaf(m)
        r == UnmarshalWeb(m)
    IN  IF ~w.err
        THEN [IdleCaller EXCEPT !.pc = "RLock", !.kind = "waf", !.waf = w.waf,
                                !.reqId = w.waf.RequestId]
        ELSE IF ~r.err
        THEN [IdleCaller EXCEPT !.pc = "RLock", !.kind = "req", !.web = r.web,
                                !.reqId = w.waf.RequestId]
        ELSE [IdleCaller EXCEPT !.ret = "error"]

\* AddEvent up to the call of RetrieveEvent: UnmarshalWaf, then, in
\* addWebEvent, UnmarshalWeb; when both fail AddEvent returns the error.
BeginAddEvent(m) ==
    LET w == UnmarshalWaf(m)
        r == UnmarshalWeb(m)
    IN  IF ~w.err
        THEN [IdleCaller EXCEPT !.pc = "RLock", !.kind = "waf", !.waf = w.waf,
                                !.reqId = w.waf.RequestId]
        ELSE IF ~r.err
        THEN [IdleCaller EXCEPT !.pc = "RLock", !.kind = "req", !.web = r.web,
                                !.reqId = r.web.RequestId]
        ELSE [IdleCaller EXCEPT !.ret = "error"]

\* Deliver by a server that Shutdown does not stop.
MutDeliverAfterShutdown(m) ==
    /\ ~panicked /\ ncalls < MaxCalls
    /\ channel' = Append(channel, m)
    /\ ncalls' = ncalls + 1
    /\ UNCHANGED <<Events, heap, rw, caller, task, logger, running, panicked>>

\* A message reaches the channel of Start (the syslog handler's send).
Deliver(m) ==
    /\ ~panicked /\ running /\ ncalls < MaxCalls
    /\ channel' = Append(channel, m)
    /\ ncalls' = ncalls + 1
    /\ UNCHANGED <<Events, heap, rw, caller, task, logger, running, panicked>>

\* The ingestion goroutine takes the next message and calls AddEvent.
Receive ==
    /\ ~panicked /\ caller["loop"].pc = "idle" /\ channel # <<>>
    /\ caller' = [caller EXCEPT !["loop"] = BeginAddEvent(Head(channel))]
    /\ channel' = Tail(channel)
    /\ UNCHANGED <<Events, heap, rw, task, logger, ncalls, running, panicked>>

\* Another goroutine calls AddEvent(m) directly.
ApiAddEvent(m) ==
    /\ ~panicked /\ caller["api"].pc = "idle" /\ ncalls < MaxCalls
    /\ caller' = [caller EXCEPT !["api"] = BeginAddEvent(m)]
    /\ ncalls' = ncalls + 1
    /\ UNCHANGED <<Events, heap, rw, channel, task, logger, running, panicked>>

\* RetrieveEvent: ece.RLock().
RetrieveRLock(c) ==
    /\ ~panicked /\ caller[c].pc = "RLock" /\ rw.w = NoOne
    /\ rw' = [rw EXCEPT !.r = @ \cup {c}]
    /\ caller' = [caller EXCEPT ![c].pc = "lookup"]
    /\ UNCHANGED <<Events, heap, channel, task, logger, ncalls, running, panicked>>

\* RetrieveEvent: event, exists := ece.Events[reqId]; ece.RUnlock().
RetrieveLookup(c) ==
    /\ ~panicked /\ caller[c].pc = "lookup"
    /\ rw' = [rw EXCEPT !.r = @ \ {c}]
    /\ caller' = [caller EXCEPT
            ![c].event = Events[caller[c].reqId],
            ![c].pc = IF Events[caller[c].reqId] # Nil THEN "mutexLock" ELSE "Lock"]
    /\ UNCHANGED <<Events, heap, channel, task, logger, ncalls, running, panicked>>

\* RetrieveEvent: ece.Lock().
RetrieveLock(c) ==
    /\ ~panicked /\ caller[c].pc = "Lock" /\ rw.w = NoOne /\ rw.r = {}
    /\ rw' = [rw EXCEPT !.w = ByCaller(c)]
    /\ caller' = [caller EXCEPT ![c].pc = "insert"]
    /\ UNCHANGED <<Events, heap, channel, task, logger, ncalls, running, panicked>>

\* The goroutines after the insertion of e by c: c returns e, and the
\* goroutines that did not find the key of e and have not looked again are
\* marked as racing with the insertion.
Inserted(c, e) ==
    [x \in Callers |->
        IF x = c THEN [caller[c] EXCEPT !.event = e, !.pc = "go"]
        ELSE IF caller[x].pc \in {"Lock", "insert"} /\ caller[x].reqId = caller[c].reqId
        THEN [caller[x] EXCEPT !.raced = e]
        ELSE caller[x]]

\* RetrieveInsert returning nil when another goroutine came first.
MutRetrieveInsertBailsWithNil(c) ==
    /\ ~panicked /\ caller[c].pc = "insert"
    /\ rw' = [rw EXCEPT !.w = NoOne]
    /\ IF Events[caller[c].reqId] # Nil
       THEN /\ caller' = [caller EXCEPT ![c].event = Nil, ![c].pc = "mutexLock"]
            /\ UNCHANGED <<Events, heap>>
       ELSE LET e == CHOOSE x \in EventIds \ Allocated :
                        \A y \in EventIds \ Allocated : x <= y
            IN  /\ heap' = [heap EXCEPT ![e] = NewEvent(caller[c].reqId)]
                /\ Events' = [Events EXCEPT ![caller[c].reqId] = e]
                /\ caller' = Inserted(c, e)
    /\ UNCHANGED <<channel, task, logger, ncalls, running, panicked>>

\* RetrieveInsert scheduling an eviction also for the goroutine that finds
\* the entry of another at its second look.
MutRetrieveInsertBailSchedules(c) ==
    /\ ~panicked /\ caller[c].pc = "insert"
    /\ rw' = [rw EXCEPT !.w = NoOne]
    /\ IF Events[caller[c].reqId] # Nil
       THEN /\ caller' = [caller EXCEPT ![c].event = Events[caller[c].reqId],
                                        ![c].pc = "go"]
            /\ UNCHANGED <<Events, heap>>
       ELSE LET e == CHOOSE x \in EventIds \ Allocated :
                        \A y \in EventIds \ Allocated : x <= y
            IN  /\ heap' = [heap EXCEPT ![e] = NewEvent(caller[c].reqId)]
                /\ Events' = [Events EXCEPT ![caller[c].reqId] = e]
                /\ caller' = Inserted(c, e)
    /\ UNCHANGED <<channel, task, logger, ncalls, running, panicked>>

\* RetrieveInsert without the second look: the entry is inserted whatever
\* another goroutine did in between.
MutRetrieveInsertNoRecheck(c) ==
    /\ ~panicked /\ caller[c].pc = "insert"
    /\ rw' = [rw EXCEPT !.w = NoOne]
    /\ LET e == CHOOSE x \in EventIds \ Allocated :
                    \A y \in EventIds \ Allocated : x <= y
       IN  /\ heap' = [heap EXCEPT ![e] = NewEvent(caller[c].reqId)]
           /\ Events' = [Events EXCEPT ![caller[c].reqId] = e]
           /\ caller' = Inserted(c, e)
    /\ UNCHANGED <<channel, task, logger, ncalls, running, panicked>>

\* RetrieveInsert returning the entry of the goroutine that came first
\* without ece.Unlock().
MutRetrieveInsertKeepsLock(c) ==
    /\ ~panicked /\ caller[c].pc = "insert"
    /\ IF Events[caller[c].reqId] # Nil
       THEN /\ caller' = [caller EXCEPT ![c].event = Events[caller[c].reqId],
                                        ![c].pc = "mutexLock"]
            /\ UNCHANGED <<Events, heap, rw>>
       ELSE LET e == CHOOSE x \in EventIds \ Allocated :
                        \A y \in EventIds \ Allocated : x <= y
            IN  /\ heap' = [heap EXCEPT ![e] = NewEvent(caller[c].reqId)]
                /\ Events' = [Events EXCEPT ![caller[c].reqId] = e]
                /\ caller' = Inserted(c, e)
                /\ rw' = [rw EXCEPT !.w = NoOne]
    /\ UNCHANGED <<channel, task, logger, ncalls, running, panicked>>

\* RetrieveEvent under the lock: the second look, then either the entry of
\* the goroutine that came first, or a new entry; ece.Unlock().
RetrieveInsert(c) ==
    /\ ~panicked /\ caller[c].pc = "insert"
    /\ rw' = [rw EXCEPT !.w = NoOne]
    /\ IF Events[caller[c].reqId] # Nil
       THEN /\ caller' = [caller EXCEPT ![c].event = Events[caller[c].reqId],
                                        ![c].pc = "mutexLock"]
            /\ UNCHANGED <<Events, heap>>
       ELSE LET e == CHOOSE x \in EventIds \ Allocated :
                        \A y \in EventIds \ Allocated : x <= y
            IN  /\ heap' = [heap EXCEPT ![e] = NewEvent(caller[c].reqId)]
                /\ Events' = [Events EXCEPT ![caller[c].reqId] = e]
                /\ caller' = Inserted(c, e)
    /\ UNCHANGED <<channel, task, logger, ncalls, running, panicked>>

\* RetrieveGo without the go statement: no eviction is scheduled.
MutRetrieveGoNoSpawn(c) ==
    /\ ~panicked /\ caller[c].pc = "go"
    /\ caller' = [caller EXCEPT ![c].pc = "mutexLock"]
    /\ UNCHANGED <<Events, heap, rw, channel, task, logger, ncalls, running, panicked>>

\* RetrieveGo starting a goroutine that does not sleep before WriteEvent.
MutRetrieveGoNoSleep(c) ==
    /\ ~panicked /\ caller[c].pc = "go"
    /\ LET f == CHOOSE x \in TaskIds \ Spawned : \A y \in TaskIds \ Spawned : x <= y
       IN  task' = [task EXCEPT ![f] = [OffTask EXCEPT !.pc = "sleep",
                                         !.reqId = caller[c].reqId, !.timer = 0,
                                         !.spawnedFor = caller[c].event]]
    /\ caller' = [caller EXCEPT ![c].pc = "mutexLock"]
    /\ UNCHANGED <<Events, heap, rw, channel, logger, ncalls, running, panicked>>

\* RetrieveEvent: go ece.DelayNotify(reqId).  The new goroutine starts in
\* time.Sleep(ece.Ttl).
RetrieveGo(c) ==
    /\ ~panicked /\ caller[c].pc = "go"
    /\ LET f == CHOOSE x \in TaskIds \ Spawned : \A y \in TaskIds \ Spawned : x <= y
       IN  task' = [task EXCEPT ![f] = [OffTask EXCEPT !.pc = "sleep",
                                         !.reqId = caller[c].reqId, !.timer = Ttl,
                                         !.spawnedFor = caller[c].event]]
    /\ caller' = [caller EXCEPT ![c].pc = "mutexLock"]
    /\ UNCHANGED <<Events, heap, rw, channel, logger, ncalls, running, panicked>>

\* AddMutexLock without the lock: the append does not wait for the mutex.
MutAddNoMutexLock(c) ==
    /\ ~panicked /\ caller[c].pc = "mutexLock"
    /\ caller' = [caller EXCEPT ![c].pc = "append"]
    /\ UNCHANGED <<Events, heap, rw, channel, task, logger, ncalls, running, panicked>>

\* AddMutexLock that does not wait for the mutex to be free.
MutAddMutexLockNoWait(c) ==
    /\ ~panicked /\ caller[c].pc = "mutexLock"
    /\ heap' = [heap EXCEPT
            ![caller[c].event].mutex = ByCaller(c),
            ![caller[c].event].acq =
                Append(@, IF caller[c].kind = "waf" THEN caller[c].waf ELSE caller[c].web)]
    /\ caller' = [caller EXCEPT ![c].pc = "append"]
    /\ UNCHANGED <<Events, rw, channel, task, logger, ncalls, running, panicked>>

\* AddEvent / addWebEvent: event.mutex.Lock().
AddMutexLock(c) ==
    /\ ~panicked /\ caller[c].pc = "mutexLock"
    /\ heap[caller[c].event].mutex = NoOne
    /\ heap' = [heap EXCEPT
            ![caller[c].event].mutex = ByCaller(c),
            ![caller[c].event].acq =
                Append(@, IF caller[c].kind = "waf" THEN caller[c].waf ELSE caller[c].web)]
    /\ caller' = [caller EXCEPT ![c].pc = "append"]
    /\ UNCHANGED <<Events, rw, channel, task, logger, ncalls, running, panicked>>

\* AddAppend where a RequestEntry starts the entry over: the WafEntries
\* appended before it are dropped.
MutAddAppendSummaryResets(c) ==
    /\ ~panicked /\ caller[c].pc = "append"
    /\ heap' = [heap EXCEPT
            ![caller[c].event].WafEntries =
                IF caller[c].kind = "waf" THEN Append(@, caller[c].waf) ELSE <<>>,
            ![caller[c].event].RequestEntries =
                IF caller[c].kind = "req" THEN Append(@, caller[c].web) ELSE @,
            ![caller[c].event].hist =
                Append(@, IF caller[c].kind = "waf" THEN caller[c].waf ELSE caller[c].web),
            ![caller[c].event].mutex = NoOne]
    /\ caller' = [caller EXCEPT ![c] = [IdleCaller EXCEPT !.ret = "nil"]]
    /\ UNCHANGED <<Events, rw, channel, task, logger, ncalls, running, panicked>>

\* AddAppend renewing the window: the sleeping eviction of the key starts
\* its sleep over.
MutAddAppendRenewsWindow(c) ==
    /\ ~panicked /\ caller[c].pc = "append"
    /\ heap' = [heap EXCEPT
            ![caller[c].event].WafEntries =
                IF caller[c].kind = "waf" THEN Append(@, caller[c].waf) ELSE @,
            ![caller[c].event].RequestEntries =
                IF caller[c].kind = "req" THEN Append(@, caller[c].web) ELSE @,
            ![caller[c].event].hist =
                Append(@, IF caller[c].kind = "waf" THEN caller[c].waf ELSE caller[c].web),
            ![caller[c].event].mutex = NoOne]
    /\ task' = [f \in TaskIds |->
            IF task[f].pc = "sleep" /\ task[f].reqId = caller[c].reqId
            THEN [task[f] EXCEPT !.timer = Ttl] ELSE task[f]]
    /\ caller' = [caller EXCEPT ![c] = [IdleCaller EXCEPT !.ret = "nil"]]
    /\ UNCHANGED <<Events, rw, channel, logger, ncalls, running, panicked>>

\* AddAppend putting the new record in front of the sequence.
MutAddAppendPrepends(c) ==
    /\ ~panicked /\ caller[c].pc = "append"
    /\ heap' = [heap EXCEPT
            ![caller[c].event].WafEntries =
                IF caller[c].kind = "waf" THEN <<caller[c].waf>> \o @ ELSE @,
            ![caller[c].event].RequestEntries =
                IF caller[c].kind = "req" THEN <<caller[c].web>> \o @ ELSE @,
            ![caller[c].event].hist =
                Append(@, IF caller[c].kind = "waf" THEN caller[c].waf ELSE caller[c].web),
            ![caller[c].event].mutex = NoOne]
    /\ caller' = [caller EXCEPT ![c] = [IdleCaller EXCEPT !.ret = "nil"]]
    /\ UNCHANGED <<Events, rw, channel, task, logger, ncalls, running, panicked>>

\* AddEvent / addWebEvent: the append, event.mutex.Unlock(), return nil.
AddAppend(c) ==
    /\ ~panicked /\ caller[c].pc = "append"
    /\ heap' = [heap EXCEPT
            ![caller[c].event].WafEntries =
                IF caller[c].kind = "waf" THEN Append(@, caller[c].waf) ELSE @,
            ![caller[c].event].RequestEntries =
                IF caller[c].kind = "req" THEN Append(@, caller[c].web) ELSE @,
            ![caller[c].event].hist =
                Append(@, IF caller[c].kind = "waf" THEN caller[c].waf ELSE caller[c].web),
            ![caller[c].event].mutex = NoOne]
    /\ caller' = [caller EXCEPT ![c] = [IdleCaller EXCEPT !.ret = "nil"]]
    /\ UNCHANGED <<Events, rw, channel, task, logger, ncalls, running, panicked>>

----------------------------------------------------------------------------
\* DelayNotify (ece.go 436-443) and WriteEvent (ece.go 191-295), by the
\* goroutine f.

\* Time passes: one tick for every sleeping goroutine and every stored entry.
Tick ==
    /\ ~panicked
    /\ \/ \E f \in TaskIds : task[f].pc = "sleep" /\ task[f].timer > 0
       \/ \E k \in Keys : Events[k] # Nil /\ heap[Events[k]].age < Ttl
    /\ task' = [f \in TaskIds |->
            IF task[f].pc = "sleep" /\ task[f].timer > 0
            THEN [task[f] EXCEPT !.timer = @ - 1] ELSE task[f]]
    /\ heap' = [e \in EventIds |->
            IF heap[e].alloc /\ Events[heap[e].reqId] = e /\ heap[e].age < Ttl
            THEN [heap[e] EXCEPT !.age = @ + 1] ELSE heap[e]]
    /\ UNCHANGED <<Events, rw, channel, caller, logger, ncalls, running, panicked>>

\* time.Sleep has returned; WriteEvent calls RemoveEvent: ece.Lock().
RemoveLock(f) ==
    /\ ~panicked
    /\ \/ task[f].pc = "sleep" /\ task[f].timer = 0
       \/ task[f].pc = "call"
    /\ rw.w = NoOne /\ rw.r = {}
    /\ rw' = [rw EXCEPT !.w = ByTask(f)]
    /\ task' = [task EXCEPT ![f].pc = "remove"]
    /\ UNCHANGED <<Events, heap, channel, caller, logger, ncalls, running, panicked>>

\* RemoveEvent without the delete: the entry is returned and stays stored.
MutRemoveEventNoDelete(f) ==
    /\ ~panicked /\ task[f].pc = "remove"
    /\ task' = [task EXCEPT ![f].event = Events[task[f].reqId],
                            ![f].pc = "mutexLock"]
    /\ rw' = [rw EXCEPT !.w = NoOne]
    /\ UNCHANGED <<Events, heap, channel, caller, logger, ncalls, running, panicked>>

\* RemoveEvent whose read is not under the lock with its delete: a caller
\* that read the map before another caller's delete still gets the entry.
MutRemoveEventStaleRead(f) ==
    /\ ~panicked /\ task[f].pc = "remove"
    /\ LET k == task[f].reqId
           old == {e \in EventIds : heap[e].alloc /\ heap[e].reqId = k}
           e == IF Events[k] # Nil THEN Events[k]
                ELSE IF old # {} THEN CHOOSE x \in old : \A y \in old : y <= x
                ELSE Nil
       IN  task' = [task EXCEPT ![f].event = e, ![f].pc = "mutexLock"]
    /\ Events' = [Events EXCEPT ![task[f].reqId] = Nil]
    /\ rw' = [rw EXCEPT !.w = NoOne]
    /\ UNCHANGED <<heap, channel, caller, logger, ncalls, running, panicked>>

\* RemoveEvent emptying the store instead of deleting the one key.
MutRemoveEventClearsStore(f) ==
    /\ ~panicked /\ task[f].pc = "remove"
    /\ task' = [task EXCEPT ![f].event = Events[task[f].reqId],
                            ![f].pc = "mutexLock"]
    /\ Events' = [k \in Keys |-> Nil]
    /\ rw' = [rw EXCEPT !.w = NoOne]
    /\ UNCHANGED <<heap, channel, caller, logger, ncalls, running, panicked>>

\* RemoveEvent under the lock: e := ece.Events[reqId]; delete; ece.Unlock().
RemoveEvent(f) ==
    /\ ~panicked /\ task[f].pc = "remove"
    /\ task' = [task EXCEPT ![f].event = Events[task[f].reqId],
                            ![f].pc = "mutexLock"]
    /\ Events' = [Events EXCEPT ![task[f].reqId] = Nil]
    /\ rw' = [rw EXCEPT !.w = NoOne]
    /\ UNCHANGED <<heap, channel, caller, logger, ncalls, running, panicked>>

\* WriteMutexLock without the lock: the merge starts with the mutex free.
MutWriteNoMutexLock(f) ==
    /\ ~panicked /\ task[f].pc = "mutexLock"
    /\ IF task[f].event = Nil
       THEN /\ panicked' = TRUE
            /\ task' = [task EXCEPT ![f].pc = "panic"]
       ELSE /\ task' = [task EXCEPT ![f].pc = "write"]
            /\ UNCHANGED panicked
    /\ UNCHANGED <<Events, heap, rw, channel, caller, logger, ncalls, running>>

\* WriteEvent: event.mutex.Lock().  On a nil event this is a nil pointer
\* dereference: the goroutine panics and the process dies.
WriteMutexLock(f) ==
    /\ ~panicked /\ task[f].pc = "mutexLock"
    /\ IF task[f].event = Nil
       THEN /\ panicked' = TRUE
            /\ task' = [task EXCEPT ![f].pc = "panic"]
            /\ UNCHANGED heap
       ELSE /\ heap[task[f].event].mutex = NoOne
            /\ heap' = [heap EXCEPT ![task[f].event].mutex = ByTask(f)]
            /\ task' = [task EXCEPT ![f].pc = "write"]
            /\ UNCHANGED panicked
    /\ UNCHANGED <<Events, rw, channel, caller, logger, ncalls, running>>

\* WriteOutput with the Println inside the loop over the waf entries: one
\* line for each of them.
MutWriteOutputPerWaf(f) ==
    /\ ~panicked /\ task[f].pc = "write"
    /\ LET ev == heap[task[f].event]
       IN  IF ConversionError(ev)
           THEN /\ task' = [task EXCEPT ![f].pc = "done", ![f].err = "conversion"]
                /\ UNCHANGED logger
           ELSE /\ \E ids \in IdLists(ev) :
                      logger' = logger \o [i \in 1..Len(ev.WafEntries) |->
                          [out |-> OutputEvent(ev, task[f].reqId, ids),
                           event |-> task[f].event]]
                /\ task' = [task EXCEPT ![f].pc = "done", ![f].err = "nil"]
    /\ UNCHANGED <<Events, heap, rw, channel, caller, ncalls, running, panicked>>

\* WriteOutput skipping the rule ids strconv.Atoi rejects: the line is
\* written without them and WriteEvent returns nil.
MutWriteOutputSkipsBadIds(f) ==
    /\ ~panicked /\ task[f].pc = "write"
    /\ LET ev == heap[task[f].event]
           ok == [ev EXCEPT !.WafEntries = SelectSeq(@, LAMBDA w : AtoiOk(w.RuleId))]
       IN  /\ \E ids \in IdLists(ok) :
                 logger' = Append(logger,
                     [out |-> [OutputEvent(ev, task[f].reqId, ids) EXCEPT !.RuleIds = ids],
                      event |-> task[f].event])
           /\ task' = [task EXCEPT ![f].pc = "done", ![f].err = "nil"]
    /\ UNCHANGED <<Events, heap, rw, channel, caller, ncalls, running, panicked>>

\* WriteOutput writing the line to the sink in two writes, the summary
\* fields first and the whole of it after; other goroutines run in between.
MutWriteOutputTwoWrites(f) ==
    /\ ~panicked /\ task[f].pc \in {"write", "write2"}
    /\ LET ev == heap[task[f].event]
       IN  IF ConversionError(ev)
           THEN /\ task' = [task EXCEPT ![f].pc = "done", ![f].err = "conversion"]
                /\ UNCHANGED logger
           ELSE IF task[f].pc = "write"
           THEN /\ logger' = Append(logger,
                        [out |-> [OutputEvent(ev, task[f].reqId, <<>>) EXCEPT
                                     !.WafEvents = <<>>],
                         event |-> task[f].event])
                /\ task' = [task EXCEPT ![f].pc = "write2"]
           ELSE /\ \E ids \in IdLists(ev) :
                      logger' = Append(logger,
                          [out |-> OutputEvent(ev, task[f].reqId, ids),
                           event |-> task[f].event])
                /\ task' = [task EXCEPT ![f].pc = "done", ![f].err = "nil"]
    /\ UNCHANGED <<Events, heap, rw, channel, caller, ncalls, running, panicked>>

\* WriteOutput with event.mutex.Unlock() before WriteEvent returns, on both
\* paths.
MutWriteOutputUnlocks(f) ==
    /\ ~panicked /\ task[f].pc = "write"
    /\ LET ev == heap[task[f].event]
       IN  IF ConversionError(ev)
           THEN /\ task' = [task EXCEPT ![f].pc = "done", ![f].err = "conversion"]
                /\ UNCHANGED logger
           ELSE /\ \E ids \in IdLists(ev) :
                      logger' = Append(logger,
                          [out |-> OutputEvent(ev, task[f].reqId, ids),
                           event |-> task[f].event])
                /\ task' = [task EXCEPT ![f].pc = "done", ![f].err = "nil"]
    /\ heap' = [heap EXCEPT ![task[f].event].mutex = NoOne]
    /\ UNCHANGED <<Events, rw, channel, caller, ncalls, running, panicked>>

\* WriteEvent with the entry's mutex held: the merge, then either the
\* conversion error or the line written to the logger.  The mutex is never
\* unlocked.
WriteOutput(f) ==
    /\ ~panicked /\ task[f].pc = "write"
    /\ LET ev == heap[task[f].event]
       IN  IF ConversionError(ev)
           THEN /\ task' = [task EXCEPT ![f].pc = "done", ![f].err = "conversion"]
                /\ UNCHANGED logger
           ELSE /\ \E ids \in IdLists(ev) :
                      logger' = Append(logger,
                          [out |-> OutputEvent(ev, task[f].reqId, ids),
                           event |-> task[f].event])
                /\ task' = [task EXCEPT ![f].pc = "done", ![f].err = "nil"]
    /\ UNCHANGED <<Events, heap, rw, channel, caller, ncalls, running, panicked>>

\* Shutdown (ece.go 422-429): the syslog server is killed; no further
\* message reaches the channel.
Shutdown ==
    /\ ~panicked /\ running
    /\ running' = FALSE
    /\ UNCHANGED <<Events, heap, rw, channel, caller, task, logger, ncalls, panicked>>

\* A goroutine calls the exported WriteEvent(k) directly.
ApiWriteEvent(k) ==
    /\ ~panicked /\ ncalls < MaxCalls
    /\ LET f == CHOOSE x \in TaskIds \ Spawned : \A y \in TaskIds \ Spawned : x <= y
       IN  task' = [task EXCEPT ![f] = [OffTask EXCEPT !.pc = "call", !.reqId = k]]
    /\ ncalls' = ncalls + 1
    /\ UNCHANGED <<Events, heap, rw, channel, caller, logger, running, panicked>>

----------------------------------------------------------------------------

CallerStep(c) ==
    \/ RetrieveRLock(c)
    \/ RetrieveLookup(c)
    \/ RetrieveLock(c)
    \/ RetrieveInsert(c)
    \/ RetrieveGo(c)
    \/ AddMutexLock(c)
    \/ AddAppend(c)

TaskStep(f) ==
    \/ RemoveLock(f)
    \/ RemoveEvent(f)
    \/ WriteMutexLock(f)
    \/ WriteOutput(f)

\* The running engine: entries are created by RetrieveEvent only and
\* WriteEvent is called by DelayNotify only.
Next ==
    \/ \E m \in Messages : Deliver(m)
    \/ Receive
    \/ \E m \in Messages : ApiAddEvent(m)
    \/ \E c \in Callers : CallerStep(c)
    \/ \E f \in TaskIds : TaskStep(f)
    \/ Tick

Spec == Init /\ [][Next]_vars

\* The engine fed through the channel of Start only, with records whose
\* logdata and request_id vary.
IngestNext ==
    \/ \E m \in IngestMessages : Deliver(m)
    \/ Receive
    \/ \E c \in Callers : CallerStep(c)
    \/ \E f \in TaskIds : TaskStep(f)
    \/ Tick

IngestSpec == Init /\ [][IngestNext]_vars

\* The engine used as a library: WriteEvent is also called directly.
ApiNext ==
    \/ Next
    \/ \E k \in Keys : ApiWriteEvent(k)

ApiSpec == Init /\ [][ApiNext]_vars

\* Every goroutine that can take a step eventually takes one, and time
\* passes; messages need not arrive.
Fairness ==
    /\ WF_vars(Receive)
    /\ \A c \in Callers : WF_vars(CallerStep(c))
    /\ \A f \in TaskIds : WF_vars(TaskStep(f))
    /\ WF_vars(Tick)

FairSpec == Spec /\ Fairness

\* The engine with Shutdown, under the fairness of FairSpec: Shutdown may be
\* called at any time, or never.
ShutdownNext ==
    \/ Next
    \/ Shutdown

ShutdownSpec == Init /\ [][ShutdownNext]_vars /\ Fairness

----------------------------------------------------------------------------
\* Vocabulary of the properties.

\* The entry e has been inserted into the store and removed from it.
Removed(e) == heap[e].alloc /\ Events[heap[e].reqId] # e

\* The eviction goroutines of key k that have not executed RemoveEvent yet,
\* and the goroutines that inserted k and are about to execute the go
\* statement.
UnfiredTasks(k) == {f \in TaskIds : task[f].reqId = k /\ task[f].pc \in {"sleep", "remove"}}
AboutToSpawn(k) == {c \in Callers : caller[c].reqId = k /\ caller[c].pc = "go"}

\* The lines of the sink written for entry e, and for key k.
LinesOf(e) == {i \in DOMAIN logger : logger[i].event = e}
LinesFor(k) == {i \in DOMAIN logger : logger[i].out.RequestId = k}
WindowsOf(k) == {e \in EventIds : heap[e].alloc /\ heap[e].reqId = k}

\* WriteEvent has returned in goroutine f: without error, with an error.
Flushed(f) == task[f].pc = "done" /\ task[f].err = "nil"
Failed(f) == task[f].pc = "done" /\ task[f].err = "conversion"

\* The goroutine f is past event.mutex.Lock() in WriteEvent.
HoldsForFlush(f, e) == task[f].event = e /\ task[f].pc \in {"write", "done"}

\* The goroutine c took its entry from RetrieveEvent and finds the entry's
\* mutex taken by WriteEvent.
LostRace(c) ==
    /\ caller[c].pc = "mutexLock"
    /\ heap[caller[c].event].mutex.t # 0

WafContained(ev, out) ==
    /\ Len(out.WafEvents) = Len(ev.WafEntries)
    /\ \A j \in 1..Len(ev.WafEntries) : out.WafEvents[j] = OutputWaf(ev.WafEntries[j])

SummaryContained(r, out) ==
    /\ out.RequestId = r.RequestId
    /\ out.ServiceId = r.ServiceId
    /\ out.ThrottlingRule = r.ThrottlingRule

----------------------------------------------------------------------------
\* C1: one eviction task per insertion.  As many DelayNotify goroutines are
\* started (or about to be started by the inserting caller) as entries were
\* inserted; for every key at most one eviction is unfired, and a key that
\* is in the store has exactly one.
C1_OneEvictionPerInsertion ==
    /\ Cardinality(Spawned) + Cardinality({c \in Callers : caller[c].pc = "go"})
          = Cardinality(Allocated)
    /\ \A k \in Keys :
          /\ Cardinality(UnfiredTasks(k)) + Cardinality(AboutToSpawn(k)) <= 1
          /\ Events[k] # Nil =>
                Cardinality(UnfiredTasks(k)) + Cardinality(AboutToSpawn(k)) = 1

\* Two callers raced on a key that was absent: one has inserted it, the other
\* saw it absent too and now holds the engine's lock for its second look.
C1_Witness ==
    \E c, d \in Callers :
        /\ c # d
        /\ caller[c].reqId = caller[d].reqId
        /\ caller[c].pc = "go"
        /\ caller[d].pc = "insert"

\* C2: no window is flushed twice.  For every key the number of lines in the
\* sink never exceeds the number of entries inserted for it, and no entry has
\* two lines.
C2_NoDuplicateFlush ==
    /\ \A k \in Keys : Cardinality(LinesFor(k)) <= Cardinality(WindowsOf(k))
    /\ \A e \in EventIds : Cardinality(LinesOf(e)) <= 1

\* Two windows of one key, each flushed.
C2_Witness ==
    \E k \in Keys : Cardinality(WindowsOf(k)) = 2 /\ Cardinality(LinesFor(k)) = 2

\* C3: under fair scheduling every inserted entry is eventually removed by
\* the eviction goroutine its insertion started, and that flush ends either
\* with the entry's line in the sink or, when a rule id of the entry is not
\* an integer, with the conversion error.
C3_EveryWindowCloses ==
    \A e \in EventIds :
        heap[e].alloc ~>
            \E f \in TaskIds :
                /\ task[f].spawnedFor = e
                /\ task[f].event = e
                /\ Removed(e)
                /\ \/ Flushed(f) /\ Cardinality(LinesOf(e)) = 1
                   \/ Failed(f) /\ ConversionError(heap[e])

\* An entry was removed by its eviction goroutine and its line is written.
C3_Witness ==
    \E f \in TaskIds :
        /\ Flushed(f)
        /\ task[f].spawnedFor = task[f].event
        /\ Cardinality(LinesOf(task[f].event)) = 1

C5_LostAppendReturns ==
    \A c \in Callers : LostRace(c) ~> (caller[c].pc = "idle" /\ caller[c].ret = "nil")

\* C6 as stated: every AddEvent call of the ingestion goroutine eventually
\* returns, and every message in the channel is eventually taken.
C6_IngestionKeepsRunning ==
    /\ (caller["loop"].pc # "idle") ~> (caller["loop"].pc = "idle")
    /\ (channel # <<>>) ~> (channel = <<>>)

\* C7 as stated: a message for key k2 that waits in the channel behind a
\* message for another key k1 makes progress whatever happens to k1's entry:
\* the ingestion goroutine eventually calls AddEvent on it, the first step
\* to its append.
C7_KeysIndependent ==
    \A k1, k2 \in Keys :
        (/\ k1 # k2
         /\ caller["loop"].pc # "idle" /\ caller["loop"].reqId = k1
         /\ channel # <<>>
         /\ ~UnmarshalWaf(Head(channel)).err
         /\ Head(channel).RequestId = k2)
        ~> (caller["loop"].pc # "idle" /\ caller["loop"].reqId = k2)

C9_FlushOfAbsentKeyIsNoOp ==
    \A f \in TaskIds :
        (task[f].event = Nil /\ task[f].pc \in {"write", "done", "panic"}) =>
            (task[f].pc = "done" /\ ~panicked)

\* C10 as stated: whenever an entry has been removed from the store, its line
\* is in the sink or its flush has failed.
C10_EmittedBeforeAbsent ==
    \A e \in EventIds :
        Removed(e) =>
            \/ LinesOf(e) # {}
            \/ \E f \in TaskIds : task[f].event = e /\ Failed(f)

\* C10 as amended: whenever the line of an entry is in the sink, or its flush
\* has failed, the entry has been removed from the store.
C10_AbsentBeforeEmitted ==
    /\ \A e \in EventIds : LinesOf(e) # {} => Removed(e)
    /\ \A f \in TaskIds : Failed(f) => Removed(task[f].event)

\* A line is in the sink and the key of its entry is absent from the store.
C10_Witness ==
    \E i \in DOMAIN logger : Events[logger[i].out.RequestId] = Nil

----------------------------------------------------------------------------
\* Vocabulary of the properties about the merge.

Range(seq) == {seq[i] : i \in DOMAIN seq}
NoRepeat(seq) == \A i, j \in DOMAIN seq : seq[i] = seq[j] => i = j

\* The integers the rule ids of the entry denote.
RuleIdValues(ev) == {Atoi(ev.hist[i].RuleId) : i \in {j \in DOMAIN ev.hist : ev.hist[j].EventType = "waf"}}

\* The entry a line was written for.
EntryOf(i) == heap[logger[i].event]

\* The RuleViolations and the RequestSummaries appended to the entry, by
\* the entry's history of appends.
Violations(ev) == SelectSeq(ev.hist, LAMBDA r : r.EventType = "waf")
Summaries(ev) == SelectSeq(ev.hist, LAMBDA r : r.EventType = "req")

\* C11 as stated: in every line written, rule_ids holds exactly the distinct
\* integer values of the rule ids accumulated in the entry, each of them
\* once.
C11_RuleIdsDistinctIntegers ==
    \A i \in DOMAIN logger :
        /\ Range(logger[i].out.RuleIds) = RuleIdValues(EntryOf(i))
        /\ NoRepeat(logger[i].out.RuleIds)

\* C12: in every line written, waf_events has one element for each
\* RuleViolation appended to the entry, in the order of the appends, also
\* when two of them carry the same rule id: its length is the number of
\* RuleViolations of the window.
C12_WafEventsPerViolation ==
    \A i \in DOMAIN logger :
        /\ Len(logger[i].out.WafEvents) = Len(Violations(EntryOf(i)))
        /\ \A j \in 1..Len(Violations(EntryOf(i))) :
              logger[i].out.WafEvents[j] = OutputWaf(Violations(EntryOf(i))[j])

\* A line for two RuleViolations with the same rule id.
C12_Witness ==
    \E i \in DOMAIN logger :
        /\ Len(logger[i].out.WafEvents) = 2
        /\ logger[i].out.WafEvents[1] = logger[i].out.WafEvents[2]

\* C13: in every line written for an entry that RequestSummaries were
\* appended to, the summary fields are those of the first of them, whatever
\* was appended after it.
C13_FirstSummaryIsBase ==
    \A i \in DOMAIN logger :
        Len(Summaries(EntryOf(i))) > 0 =>
            SummaryContained(Summaries(EntryOf(i))[1], logger[i].out)

\* A line for an entry with two different RequestSummaries.
C13_Witness ==
    \E i \in DOMAIN logger :
        /\ Len(Summaries(EntryOf(i))) = 2
        /\ Summaries(EntryOf(i))[1] # Summaries(EntryOf(i))[2]

\* C14: a line written for an entry that no RequestSummary was appended to
\* carries the key of the entry as request_id and the waf events; the
\* summary fields and throttling_rule are empty and throttled is 0.
C14_KeyOnlyWithoutSummary ==
    \A i \in DOMAIN logger :
        Len(Summaries(EntryOf(i))) = 0 =>
            /\ logger[i].out.RequestId = EntryOf(i).reqId
            /\ logger[i].out.ServiceId = ""
            /\ logger[i].out.ThrottlingRule = ""
            /\ logger[i].out.Throttled = 0
            /\ Len(logger[i].out.WafEvents) = Len(Violations(EntryOf(i)))

\* A line for an entry with a RuleViolation and no RequestSummary.
C14_Witness ==
    \E i \in DOMAIN logger :
        /\ Len(Summaries(EntryOf(i))) = 0
        /\ Len(Violations(EntryOf(i))) = 1
        /\ logger[i].out.RuleIds = <<0>>

\* C15: in every line written, throttled is 1 when the first RequestSummary
\* appended to the entry has a non-empty throttling_rule, and 0 otherwise
\* (the throttling_rule is empty, or there is no summary).
C15_ThrottledIffFirstRule ==
    \A i \in DOMAIN logger :
        logger[i].out.Throttled =
            IF /\ Len(Summaries(EntryOf(i))) > 0
               /\ Summaries(EntryOf(i))[1].ThrottlingRule # ""
            THEN 1 ELSE 0

\* A line with throttled = 1, and the first summary has the throttling rule.
C15_Witness ==
    \E i \in DOMAIN logger :
        /\ logger[i].out.Throttled = 1
        /\ Summaries(EntryOf(i))[1].ThrottlingRule = "t"

RendersOnly(i, e) ==
    /\ logger[i].event = e
    /\ logger[i].out.RequestId = heap[e].reqId
    /\ Len(logger[i].out.WafEvents) = Len(Violations(heap[e]))
    /\ \A j \in 1..Len(Violations(heap[e])) :
          logger[i].out.WafEvents[j] = OutputWaf(Violations(heap[e])[j])
    /\ Len(Summaries(heap[e])) = 0 => logger[i].out.ServiceId = ""

\* The goroutine c enters AddEvent's RetrieveEvent with a record for key k
\* after the window e1 of k has been flushed, and k is not in the store.
LaterRecord(c, k, e1) ==
    /\ caller[c].pc = "RLock" /\ caller[c].reqId = k
    /\ Events[k] = Nil
    /\ heap[e1].alloc /\ heap[e1].reqId = k /\ LinesOf(e1) # {}

BadRuleId(ev) ==
    \E j \in DOMAIN ev.hist :
        ev.hist[j].EventType = "waf" /\ ~AtoiOk(ev.hist[j].RuleId)

\* C18: when WriteEvent has returned for an entry that holds a rule id that
\* is not an integer, it has returned the conversion error, no line has been
\* written for the entry, and the entry is out of the store; WriteEvent
\* returns the conversion error in no other case.
C18_ConversionErrorLosesWindow ==
    \A f \in TaskIds :
        task[f].pc = "done" =>
            /\ BadRuleId(heap[task[f].event]) <=> Failed(f)
            /\ Failed(f) =>
                  /\ LinesOf(task[f].event) = {}
                  /\ Removed(task[f].event)
                  /\ Events[task[f].reqId] # task[f].event

\* A flush that failed for an entry holding a valid record besides the one
\* with the rule id that is not an integer: both are lost.
C18_Witness ==
    \E f \in TaskIds :
        /\ Failed(f)
        /\ Len(heap[task[f].event].hist) = 2
        /\ LinesOf(task[f].event) = {}
        /\ Events[task[f].reqId] = Nil

\* The ingestion goroutine takes the message at the head of the channel.
Taken == channel # <<>> /\ channel' = Tail(channel)

\* C19: when the ingestion goroutine takes a message that decodes neither as
\* a WafEntry nor as a RequestEntry, AddEvent returns an error at once; the
\* store, the entries, the eviction goroutines, the locks and the sink are
\* unchanged, and the goroutine is ready for the next message.
C19_UnparsableChangesNothing ==
    [][(/\ Taken
        /\ UnmarshalWaf(Head(channel)).err
        /\ UnmarshalWeb(Head(channel)).err)
       => /\ caller'["loop"].pc = "idle"
          /\ caller'["loop"].ret = "error"
          /\ caller'["loop"].event = Nil
          /\ ~panicked'
          /\ UNCHANGED <<Events, heap, task, rw, logger>>]_vars

\* AddEvent has returned an error to the ingestion goroutine, nothing has
\* been stored, and the next message waits in the channel.
C19_Witness ==
    /\ caller["loop"].pc = "idle"
    /\ caller["loop"].ret = "error"
    /\ channel # <<>>
    /\ Allocated = {}
    /\ Spawned = {}

\* The sequences of the entries other than e are unchanged.
OthersUnchanged(e) ==
    \A d \in EventIds \ {e} :
        /\ heap'[d].WafEntries = heap[d].WafEntries
        /\ heap'[d].RequestEntries = heap[d].RequestEntries

\* C20: a message that decodes and is tagged "waf" is a WafEntry for
\* UnmarshalWaf and an error for UnmarshalWeb, one tagged "req" is a
\* RequestEntry for UnmarshalWeb and an error for UnmarshalWaf, and no
\* message is both; the append of an accepted message adds one record, with
\* the tag of its kind, to one sequence of one entry and changes no other.
C20_ExclusiveClassification ==
    [][/\ Taken =>
            LET m == Head(channel)
            IN  /\ UnmarshalWaf(m).err \/ UnmarshalWeb(m).err
                /\ (m.json /\ m.EventType = "waf") =>
                      /\ ~UnmarshalWaf(m).err /\ UnmarshalWeb(m).err
                      /\ caller'["loop"].kind = "waf"
                      /\ caller'["loop"].waf.EventType = "waf"
                /\ (m.json /\ m.EventType = "req") =>
                      /\ UnmarshalWaf(m).err /\ ~UnmarshalWeb(m).err
                      /\ caller'["loop"].kind = "req"
                      /\ caller'["loop"].web.EventType = "req"
       /\ \A c \in Callers :
            (caller[c].pc = "append" /\ caller'[c].pc = "idle") =>
                LET e == caller[c].event
                IN  /\ OthersUnchanged(e)
                    /\ \/ /\ caller[c].waf.EventType = "waf"
                          /\ heap'[e].WafEntries = Append(heap[e].WafEntries, caller[c].waf)
                          /\ heap'[e].RequestEntries = heap[e].RequestEntries
                       \/ /\ caller[c].web.EventType = "req"
                          /\ heap'[e].RequestEntries =
                                Append(heap[e].RequestEntries, caller[c].web)
                          /\ heap'[e].WafEntries = heap[e].WafEntries]_vars

\* One entry holds a record of each kind, each in the sequence of its kind.
C20_Witness ==
    \E e \in EventIds :
        /\ Len(heap[e].WafEntries) = 1 /\ heap[e].WafEntries[1].EventType = "waf"
        /\ Len(heap[e].RequestEntries) = 1 /\ heap[e].RequestEntries[1].EventType = "req"

\* C21 as stated: a flush is not failed by logdata (WriteEvent returns the
\* error of a rule id only), and in every line written the logdata of a waf
\* event is empty when the logdata of its RuleViolation is empty or is not
\* valid base64.
C21_UndecodableLogDataIsEmpty ==
    /\ \A f \in TaskIds :
          task[f].pc = "done" => (Failed(f) <=> BadRuleId(heap[task[f].event]))
    /\ \A i \in DOMAIN logger :
          /\ Len(logger[i].out.WafEvents) = Len(Violations(EntryOf(i)))
          /\ \A j \in 1..Len(Violations(EntryOf(i))) :
                LET w == Violations(EntryOf(i))[j]
                IN  (w.LogData = <<>> \/ DecodeString(w.LogData).err) =>
                        logger[i].out.WafEvents[j].LogData = <<>>

\* C26 as stated: no entry is ever created under the empty key.
C26_EmptyKeyNotIngested ==
    /\ Events[""] = Nil
    /\ \A e \in EventIds : heap[e].alloc => heap[e].reqId # ""

\* The goroutine c is in AddEvent and has found, or is about to find, the
\* key of its record in the store, or is past RetrieveEvent.
FoundKey(c) ==
    \/ caller[c].pc \in {"lookup", "insert"} /\ Events[caller[c].reqId] # Nil
    \/ caller[c].pc \in {"mutexLock", "append"}

\* C22: a step of AddEvent that finds the key in the store takes the entry
\* stored under it, and neither that step nor the append that follows it
\* changes the store, starts an eviction goroutine, or touches a sleeping
\* one and the age of an entry.
C22_WindowNeverRenewed ==
    [][\A c \in Callers :
          (caller'[c] # caller[c] /\ FoundKey(c)) =>
              /\ Events' = Events
              /\ task' = task
              /\ \A e \in EventIds :
                    heap'[e].age = heap[e].age /\ heap'[e].alloc = heap[e].alloc
              /\ caller[c].pc \in {"lookup", "insert"} =>
                    /\ caller'[c].event = Events[caller[c].reqId]
                    /\ caller'[c].pc = "mutexLock"]_vars

\* A second record has been appended to an entry whose eviction is still
\* pending, due at the time set when the entry was created.
C22_Witness ==
    \E f \in TaskIds :
        /\ task[f].pc = "sleep" /\ task[f].timer < Ttl
        /\ Len(heap[task[f].spawnedFor].hist) = 2
        /\ Events[task[f].reqId] = task[f].spawnedFor

\* The goroutines RemoveEvent has returned the entry e to, and those it has
\* returned to for key k.
Receivers(e) == {f \in TaskIds : task[f].event = e}
Returned(k) ==
    {f \in TaskIds : task[f].reqId = k /\ task[f].pc \in {"mutexLock", "write", "done", "panic"}}

\* C23: whoever calls RemoveEvent, an eviction goroutine or a direct call of
\* WriteEvent, an entry is returned to at most one of the calls, to exactly
\* one once it is out of the store, and every other call that has returned
\* for the key has got nil.
C23_RemoveEventAtomic ==
    /\ \A e \in EventIds :
          /\ Cardinality(Receivers(e)) <= 1
          /\ Removed(e) <=> Cardinality(Receivers(e)) = 1
    /\ \A k \in Keys :
          Cardinality({f \in Returned(k) : task[f].event # Nil})
              = Cardinality({e \in WindowsOf(k) : Removed(e)})

\* Two calls of RemoveEvent for one key have returned: one with the entry,
\* the other with nil.
C23_Witness ==
    \E f, g \in TaskIds :
        /\ f # g
        /\ task[f].reqId = task[g].reqId
        /\ f \in Returned(task[f].reqId) /\ g \in Returned(task[g].reqId)
        /\ task[f].event # Nil
        /\ task[g].event = Nil

\* The lines WriteEvent can write for the entry e under the key k.
WholeLines(e, k) == {OutputEvent(heap[e], k, ids) : ids \in IdLists(heap[e])}

CallerHoldsStore(c) == rw.w = ByCaller(c) \/ c \in rw.r
TaskHoldsStore(f) == rw.w = ByTask(f)

\* C27: a goroutine in AddEvent holds the engine's lock only at the map
\* lookup (read lock) and at the second look and insertion (write lock), a
\* goroutine in WriteEvent only inside RemoveEvent; none holds it at the go
\* statement, while it waits for or holds an entry's mutex, appends, merges
\* or writes to the sink.
C27_StoreLockOnlyForMapAccess ==
    /\ \A c \in Callers :
          /\ c \in rw.r => caller[c].pc = "lookup"
          /\ rw.w = ByCaller(c) => caller[c].pc = "insert"
          /\ caller[c].pc \in {"idle", "go", "mutexLock", "append"} => ~CallerHoldsStore(c)
    /\ \A f \in TaskIds :
          /\ TaskHoldsStore(f) => task[f].pc = "remove"
          /\ task[f].pc \in {"sleep", "mutexLock", "write", "done"} => ~TaskHoldsStore(f)
    /\ \A e \in EventIds :
          /\ heap[e].mutex.c # "none" => ~CallerHoldsStore(heap[e].mutex.c)
          /\ heap[e].mutex.t # 0 => ~TaskHoldsStore(heap[e].mutex.t)

\* A goroutine appends to an entry, holding its mutex, while another is
\* inside RemoveEvent with the engine's lock.
C27_Witness ==
    \E c \in Callers, f \in TaskIds :
        /\ caller[c].pc = "append"
        /\ heap[caller[c].event].mutex = ByCaller(c)
        /\ rw.w = ByTask(f)

\* The goroutines inside the critical section of the entry e: appenders
\* between Lock and Unlock, and the flush, which never unlocks.
Appending(e) == {c \in Callers : caller[c].pc = "append" /\ caller[c].event = e}
Flushing(e) == {f \in TaskIds : task[f].pc \in {"write", "done"} /\ task[f].event = e}

\* The records of the goroutines that took the mutex of e and have appended.
Applied(e) == SubSeq(heap[e].acq, 1, Len(heap[e].acq) - Cardinality(Appending(e)))

\* C28: at most one goroutine, appender or flush, is inside the critical
\* section of an entry, and it is the holder of the entry's mutex; the
\* entry's sequences hold the records of the appenders that have left it, in
\* the order in which they took the mutex.
C28_AppendsInLockOrder ==
    \A e \in EventIds :
        /\ Cardinality(Appending(e)) + Cardinality(Flushing(e)) <= 1
        /\ \A c \in Appending(e) : heap[e].mutex = ByCaller(c)
        /\ \A f \in Flushing(e) : heap[e].mutex = ByTask(f)
        /\ heap[e].WafEntries = SelectSeq(Applied(e), LAMBDA r : r.EventType = "waf")
        /\ heap[e].RequestEntries = SelectSeq(Applied(e), LAMBDA r : r.EventType = "req")

\* Two goroutines append to one entry: one is inside, the other waits for
\* the mutex.
C28_Witness ==
    \E c, d \in Callers :
        /\ c # d
        /\ caller[c].pc = "append"
        /\ caller[d].pc = "mutexLock"
        /\ caller[c].event = caller[d].event
        /\ heap[caller[c].event].mutex = ByCaller(c)

\* C29: an eviction goroutine that is past time.Sleep has slept while its
\* entry was in the store for the whole of Ttl, and an entry that is out of
\* the store was in it for the whole of Ttl, however many records it holds.
C29_NoEarlyEviction ==
    /\ \A f \in TaskIds :
          task[f].pc \in {"remove", "mutexLock", "write", "done"} =>
              heap[task[f].spawnedFor].age = Ttl
    /\ \A e \in EventIds : Removed(e) => heap[e].age = Ttl

\* An entry that two records were appended to has been removed, after Ttl.
C29_Witness ==
    \E e \in EventIds :
        /\ Removed(e)
        /\ Len(heap[e].hist) = 2
        /\ heap[e].age = Ttl

\* C30: a line written for an entry that no RuleViolation was appended to
\* has no rule id and no waf event, and, when RequestSummaries were appended
\* to the entry, the summary fields of the first of them.
C30_SummaryOnlyWindow ==
    \A i \in DOMAIN logger :
        Len(Violations(EntryOf(i))) = 0 =>
            /\ logger[i].out.RuleIds = <<>>
            /\ logger[i].out.WafEvents = <<>>
            /\ Len(Summaries(EntryOf(i))) > 0 =>
                  SummaryContained(Summaries(EntryOf(i))[1], logger[i].out)

\* A line for an entry that holds a RequestSummary and nothing else.
C30_Witness ==
    \E i \in DOMAIN logger :
        /\ Len(EntryOf(i).hist) = 1
        /\ EntryOf(i).hist[1].EventType = "req"
        /\ logger[i].out.ServiceId = "s1"
        /\ logger[i].out.RuleIds = <<>>

----------------------------------------------------------------------------
\* The goroutine c has its entry from RetrieveEvent.
Retrieved(c) == caller[c].pc \in {"go", "mutexLock", "append"}

\* RemoveEvent has handed the entry e to a WriteEvent.
TakenOut(e) ==
    \E f \in TaskIds : task[f].event = e /\ task[f].pc \in {"mutexLock", "write", "done"}

----------------------------------------------------------------------------
\* C32: in the running engine, where entries are created by RetrieveEvent
\* only and WriteEvent is called by DelayNotify only, the key of an eviction
\* goroutine is in the store when the goroutine executes RemoveEvent, and it
\* maps to the entry whose insertion started the goroutine: RemoveEvent
\* returns that entry, not nil, and WriteEvent never dereferences nil.
C32_EvictionFindsItsEntry ==
    /\ ~panicked
    /\ \A f \in TaskIds :
          /\ task[f].pc \in {"sleep", "remove"} =>
                /\ Events[task[f].reqId] # Nil
                /\ Events[task[f].reqId] = task[f].spawnedFor
          /\ task[f].pc \in {"mutexLock", "write", "done"} =>
                /\ task[f].event # Nil
                /\ task[f].event = task[f].spawnedFor
          /\ task[f].pc # "panic"

\* The eviction of the second entry of a key has got its entry from
\* RemoveEvent, after the eviction of the first entry removed the key.
C32_Witness ==
    \E f, g \in TaskIds :
        /\ f # g /\ task[f].reqId = task[g].reqId
        /\ task[g].pc = "done"
        /\ task[f].pc = "mutexLock"
        /\ task[f].event # Nil /\ task[f].event # task[g].event
        /\ Events[task[f].reqId] = Nil

----------------------------------------------------------------------------
\* The line i renders the entry ev as it is now.
RendersEntry(i, ev) ==
    /\ logger[i].out.RuleIds \in IdLists(ev)
    /\ logger[i].out = OutputEvent(ev, ev.reqId, logger[i].out.RuleIds)

\* C33: once WriteEvent has taken the mutex of an entry the mutex stays with
\* its goroutine, also after WriteEvent has returned, with or without the
\* conversion error; from then on the two sequences of the entry never
\* change, and a line written for the entry renders the entry as it was when
\* the mutex was taken, which is as it is ever after.
C33_FlushLockIsFinal ==
    /\ [](\A f \in TaskIds :
            task[f].pc \in {"write", "done"} =>
                /\ task[f].event # Nil
                /\ heap[task[f].event].mutex = ByTask(f))
    /\ [](\A i \in DOMAIN logger : RendersEntry(i, EntryOf(i)))
    /\ [][\A f \in TaskIds, e \in EventIds :
            HoldsForFlush(f, e) =>
                /\ heap'[e].mutex = heap[e].mutex
                /\ heap'[e].WafEntries = heap[e].WafEntries
                /\ heap'[e].RequestEntries = heap[e].RequestEntries
                /\ HoldsForFlush(f, e)']_vars

\* One WriteEvent has returned nil and another the conversion error; each
\* goroutine still holds the mutex of its entry, and an AddEvent waits for
\* the mutex of the entry whose line is written.
C33_Witness ==
    \E f, g \in TaskIds, c \in Callers :
        /\ Flushed(f) /\ Failed(g)
        /\ heap[task[f].event].mutex = ByTask(f)
        /\ heap[task[g].event].mutex = ByTask(g)
        /\ LinesOf(task[f].event) # {}
        /\ caller[c].pc = "mutexLock" /\ caller[c].event = task[f].event

----------------------------------------------------------------------------
\* The key the store held the entry of line i under, by the goroutine that
\* removed the entry and wrote the line.
KeysOfLine(i) == {task[f].reqId : f \in {g \in TaskIds : task[g].event = logger[i].event}}

\* C34: the request_id of every line written is the key its entry was
\* stored under (the key it was inserted under and removed under), when
\* the fields of the line come from the first RequestSummary and when there
\* is none.
C34_LineCarriesStoreKey ==
    \A i \in DOMAIN logger :
        /\ logger[i].out.RequestId = EntryOf(i).reqId
        /\ KeysOfLine(i) = {logger[i].out.RequestId}
        /\ Len(EntryOf(i).RequestEntries) > 0 =>
              EntryOf(i).RequestEntries[1].RequestId = EntryOf(i).reqId

\* Two lines, one for an entry with a RequestSummary and one for an entry
\* without, each with the key of its entry.
C34_Witness ==
    \E i, j \in DOMAIN logger :
        /\ Len(EntryOf(i).RequestEntries) > 0
        /\ Len(EntryOf(j).RequestEntries) = 0
        /\ logger[i].out.RequestId = "k1" /\ EntryOf(i).reqId = "k1"
        /\ logger[j].out.RequestId # "" /\ EntryOf(j).reqId = logger[j].out.RequestId

----------------------------------------------------------------------------
\* The rule ids and severities of a sequence of records or of waf events,
\* in its order.
CopiedOf(seq) == [j \in DOMAIN seq |-> <<seq[j].RuleId, seq[j].Severity>>]

\* C35: the waf events of a line are in the order in which the
\* RuleViolations were appended to the entry: the rule ids and severities
\* of waf_events, read in order, are the rule id strings and the severities
\* of the RuleViolations in the order of their appends, each as it was
\* received.
C35_WafEventsInAppendOrder ==
    \A i \in DOMAIN logger :
        CopiedOf(logger[i].out.WafEvents) = CopiedOf(Violations(EntryOf(i)))

\* A line for two RuleViolations with different rule ids, neither of them
\* the text of the integer in rule_ids.
C35_Witness ==
    \E i \in DOMAIN logger :
        /\ Len(logger[i].out.WafEvents) = 2
        /\ logger[i].out.WafEvents[1].RuleId # logger[i].out.WafEvents[2].RuleId
        /\ \E j \in 1..2 : /\ logger[i].out.WafEvents[j].RuleId = <<"0", "0">>
                           /\ logger[i].out.WafEvents[j].Severity = "s"

----------------------------------------------------------------------------
\* The goroutine f takes a step of its WriteEvent (RemoveEvent included).
FlushStep(f) == task[f].pc # "off" /\ task'[f].pc # task[f].pc

----------------------------------------------------------------------------
\* The goroutine c enters AddEvent's RetrieveEvent with a record for key k
\* after the flush of the window e1 of k has failed with the conversion
\* error.
RecordAfterFailure(c, k, e1) ==
    /\ caller[c].pc = "RLock" /\ caller[c].reqId = k
    /\ heap[e1].alloc /\ heap[e1].reqId = k
    /\ \E f \in TaskIds : task[f].event = e1 /\ Failed(f)

\* C37 as stated: under fair scheduling, a record for key k that arrives
\* after the flush of a window of k has failed with the conversion error is
\* ingested into another entry for k with an eviction goroutine of its own,
\* and that entry is flushed with the record in it: its line renders its
\* records only, or the flush fails because a rule id of the new entry
\* itself is not an integer.
C37_LaterRecordIngested ==
    \A c \in Callers, k \in Keys, e1 \in EventIds :
        RecordAfterFailure(c, k, e1) ~>
            \E e2 \in WindowsOf(k) \ {e1}, g \in TaskIds :
                /\ task[g].spawnedFor = e2 /\ task[g].event = e2
                /\ heap[e2].hist # <<>>
                /\ \/ /\ Flushed(g)
                      /\ Cardinality(LinesOf(e2)) = 1
                      /\ \A i \in LinesOf(e2) : RendersOnly(i, e2)
                      /\ LinesOf(e1) = {}
                   \/ Failed(g) /\ BadRuleId(heap[e2])

\* What holds of C37 whether or not the append of the record completes:
\* under fair scheduling, a record for key k that arrives after the flush of
\* a window of k has failed with the conversion error leads to another entry
\* for k with an eviction goroutine of its own; that flush writes one line
\* rendering what was appended to the new entry only, nothing of the failed
\* window, and fails only when a rule id of the new entry itself is not an
\* integer.
FreshWindowAfterFailure ==
    \A c \in Callers, k \in Keys, e1 \in EventIds :
        RecordAfterFailure(c, k, e1) ~>
            \E e2 \in WindowsOf(k) \ {e1}, g \in TaskIds :
                /\ task[g].spawnedFor = e2 /\ task[g].event = e2
                /\ \/ /\ Flushed(g)
                      /\ Cardinality(LinesOf(e2)) = 1
                      /\ \A i \in LinesOf(e2) : RendersOnly(i, e2)
                      /\ LinesOf(e1) = {}
                   \/ Failed(g) /\ BadRuleId(heap[e2])
====
